---- MODULE Spec2Model ----
(***************************************************************************)
(* Model of the df2 waveform reader (src/src/lib.rs): Segment::from_read,  *)
(* Segment::len, Reader::read_one, Reader::seek and Iterator::next, over a *)
(* byte stream held as in a file. The stream is kept run-length encoded    *)
(* (a run is one 16-bit little-endian word repeated cnt times) so that     *)
(* records near the 16-bit limits of the format fit in a state.            *)
(***************************************************************************)
EXTENDS Integers, Sequences, FiniteSets, TLC

VARIABLES
    stream,          \* Reader.reader (lib.rs:40): the whole words of the source
    tail,            \* Reader.reader: bytes (0 or 1) after the last whole word
    stream_len,      \* Reader.reader: length of the source in bytes
    overflow_checks, \* the build: u16 overflow panics (TRUE) or wraps (FALSE)
    pos,             \* Reader.reader: the cursor of the source
    last,            \* the last call on the reader and what it returned
    since,           \* k: target of the seek that positioned the reader (0: none
                     \* yet, -1: a seek that failed), n: shots read since
    erred            \* a read has returned an error since the reader was positioned

vars == <<stream, tail, stream_len, overflow_checks, pos, last, since, erred>>

(***************************************************************************)
(* Bounds of the model.                                                    *)
(***************************************************************************)
MaxShots == 2

MaxSeek == MaxShots + 2

(***************************************************************************)
(* u16 arithmetic. An overflowing operation panics when the build has      *)
(* overflow checks (debug) and wraps modulo 2^16 when it has not (release).*)
(***************************************************************************)
U16Mod == 65536

Ovf(x) == x < 0 \/ x >= U16Mod
Wrap(x) == x % U16Mod

Max(a, b) == IF a >= b THEN a ELSE b
Min(a, b) == IF a <= b THEN a ELSE b

(***************************************************************************)
(* The byte stream. stream is a sequence of runs of words, tail the number *)
(* of bytes (0 or 1) that follow the last whole word.                      *)
(***************************************************************************)
Run(w, c) == [w |-> w, cnt |-> c]

RECURSIVE WordsLen(_)
WordsLen(runs) ==
    IF runs = <<>> THEN 0 ELSE Head(runs).cnt + WordsLen(Tail(runs))

RECURSIVE WordAt(_, _)
WordAt(runs, k) ==
    IF k < Head(runs).cnt THEN Head(runs).w
    ELSE WordAt(Tail(runs), k - Head(runs).cnt)

\* little-endian layout of a word in the file
LoByte(w) == w % 256
HiByte(w) == w \div 256

ByteAt(p) ==
    LET w == WordAt(stream, p \div 2)
    IN  IF p % 2 = 0 THEN LoByte(w) ELSE HiByte(w)

\* LittleEndian::read_u16 of two bytes
U16LE(b0, b1) == b0 + 256 * b1

\* read_u16::<LittleEndian>() at byte position p: read_exact of 2 bytes; when
\* fewer than 2 are left it fails with UnexpectedEof having consumed them.
read_u16(p) ==
    IF p + 2 <= stream_len
    THEN [ok |-> TRUE, val |-> U16LE(ByteAt(p), ByteAt(p + 1)), pos |-> p + 2]
    ELSE [ok |-> FALSE, val |-> 0, pos |-> Max(p, stream_len)]

\* A Vec<u16> is held run-length encoded, adjacent equal values merged.
PushRun(r, rest) ==
    IF rest # <<>> /\ Head(rest).w = r.w
    THEN <<Run(r.w, r.cnt + Head(rest).cnt)>> \o Tail(rest)
    ELSE <<r>> \o rest

\* the n words read one after another from word index k
RECURSIVE ReadWords(_, _, _)
ReadWords(runs, k, n) ==
    IF n = 0 THEN <<>>
    ELSE LET h == Head(runs)
         IN  IF k >= h.cnt THEN ReadWords(Tail(runs), k - h.cnt, n)
             ELSE LET take == Min(n, h.cnt - k)
                  IN  PushRun(Run(U16LE(LoByte(h.w), HiByte(h.w)), take),
                              ReadWords(Tail(runs), 0, n - take))

RECURSIVE VecLen(_)
VecLen(data) == IF data = <<>> THEN 0 ELSE Head(data).cnt + VecLen(Tail(data))

\* `offset * 2` of read_one and `offset * 2 + 2` of seek, on the u16 read from
\* the offset field: the value the arithmetic leaves when it wraps, and
\* whether it overflowed
OffsetBytes(offset) ==
    [ovf |-> Ovf(offset * 2), val |-> Wrap(offset * 2)]

Stride(offset) ==
    [ovf |-> Ovf(offset * 2) \/ Ovf(Wrap(offset * 2) + 2),
     val |-> Wrap(Wrap(offset * 2) + 2)]

(***************************************************************************)
(* Segment                                                                 *)
(***************************************************************************)
SegFail(p) == [ok |-> FALSE, data |-> <<>>, time_interval |-> 0, pos |-> p]

\* Segment::from_read at byte position p
from_read(p) ==
    LET ns == read_u16(p)
    IN  IF ~ns.ok THEN SegFail(ns.pos)
        ELSE LET dataEnd == ns.pos + 2 * ns.val
             IN  IF dataEnd > stream_len THEN SegFail(stream_len)
                 ELSE LET ti == read_u16(dataEnd)
                      IN  IF ~ti.ok THEN SegFail(ti.pos)
                          ELSE LET rs == read_u16(ti.pos)
                               IN  IF ~rs.ok THEN SegFail(rs.pos)
                                   ELSE [ok |-> TRUE,
                                         data |-> ReadWords(stream, ns.pos \div 2, ns.val),
                                         time_interval |-> ti.val,
                                         pos |-> rs.pos]

\* Segment::len: self.data.len() as u16 * 2 + 6, in u16
SegLen(data) ==
    LET n == Wrap(VecLen(data))
    IN  [ovf |-> Ovf(n * 2) \/ Ovf(Wrap(n * 2) + 6),
         val |-> Wrap(Wrap(n * 2) + 6)]

Segment(s) == [data |-> s.data, time_interval |-> s.time_interval]

(***************************************************************************)
(* Reader::read_one                                                        *)
(***************************************************************************)
\* kind: "shot" = Ok(Some(shot)), "none" = Ok(None), "io" = Err(Io),
\* "invalid_offset" = Err(InvalidOffset), "panic" = arithmetic overflow panic
Res(kind, p, number, offset, outgoing, segments) ==
    [kind |-> kind, pos |-> p, number |-> number, offset |-> offset,
     outgoing |-> outgoing, segments |-> segments]

\* one iteration of the echo loop of read_one, entered at p with
\* bytes_remaining > 0: the record is given up ("io", "invalid_offset"), the
\* program ends ("panic"), or the segment is kept ("next")
EchoStep(p, bytes_remaining) ==
    LET segment == from_read(p)
    IN  IF ~segment.ok
        THEN [kind |-> "io", pos |-> segment.pos,
              bytes_remaining |-> bytes_remaining, segment |-> segment]
        ELSE LET len == SegLen(segment.data)
             IN  IF len.ovf /\ overflow_checks
                 THEN [kind |-> "panic", pos |-> segment.pos,
                       bytes_remaining |-> bytes_remaining, segment |-> segment]
                 ELSE IF len.val > bytes_remaining
                 THEN [kind |-> "invalid_offset", pos |-> segment.pos,
                       bytes_remaining |-> bytes_remaining, segment |-> segment]
                 ELSE [kind |-> "next", pos |-> segment.pos,
                       bytes_remaining |-> bytes_remaining - len.val,
                       segment |-> segment]

RECURSIVE EchoLoop(_, _, _, _, _, _)
EchoLoop(p, bytes_remaining, number, offset, outgoing, segments) ==
    IF ~(bytes_remaining > 0)
    THEN Res("shot", p, number, offset, outgoing, segments)
    ELSE LET step == EchoStep(p, bytes_remaining)
         IN  IF step.kind # "next"
             THEN Res(step.kind, step.pos, number, offset, <<>>, <<>>)
             ELSE EchoLoop(step.pos, step.bytes_remaining, number, offset,
                           outgoing, Append(segments, Segment(step.segment)))

read_one(p) ==
    LET nr == read_u16(p)
    IN  IF ~nr.ok THEN Res("none", nr.pos, 0, 0, <<>>, <<>>)
        ELSE
        LET number == nr.val
            or == read_u16(nr.pos)
        IN  IF ~or.ok THEN Res("io", or.pos, number, 0, <<>>, <<>>)
            ELSE
            LET offset == or.val
            IN  IF OffsetBytes(offset).ovf /\ overflow_checks
                THEN Res("panic", or.pos, number, offset, <<>>, <<>>)
                ELSE
                LET bytes_remaining == OffsetBytes(offset).val
                    outgoing == from_read(or.pos)
                IN  IF ~outgoing.ok
                    THEN Res("io", outgoing.pos, number, offset, <<>>, <<>>)
                    ELSE
                    LET len == SegLen(outgoing.data)
                    IN  IF (len.ovf \/ Ovf(bytes_remaining - len.val)) /\ overflow_checks
                        THEN Res("panic", outgoing.pos, number, offset, <<>>, <<>>)
                        ELSE EchoLoop(outgoing.pos,
                                      Wrap(bytes_remaining - len.val),
                                      number, offset, outgoing.data, <<>>)

(***************************************************************************)
(* Reader::seek                                                            *)
(***************************************************************************)
\* kind: "ok" = Ok(()), "invalid_shot_number", "io", "panic"
\* number is what InvalidShotNumber carries, 0 for the other kinds
SeekRes(kind, p, number) == [kind |-> kind, pos |-> p, number |-> number]

\* the loop of seek: cursor is where the source is, position what seek tracks
RECURSIVE SeekLoop(_, _, _, _)
SeekLoop(cursor, position, current, number) ==
    IF ~(current < number) THEN SeekRes("ok", cursor - 2, 0)
    ELSE LET r == read_u16(cursor)
         IN  IF ~r.ok THEN SeekRes("io", r.pos, 0)
             ELSE IF Stride(r.val).ovf /\ overflow_checks
             THEN SeekRes("panic", r.pos, 0)
             ELSE LET offset == Stride(r.val).val
                      new_position == r.pos + offset
                  IN  IF new_position # (position + 2) + offset
                      THEN SeekRes("invalid_shot_number", new_position, number)
                      ELSE SeekLoop(new_position, (position + 2) + offset,
                                    current + 1, number)

\* seek repositioning before it looks at the number
seek_reposition_first(p, number) ==
    IF number = 0 THEN SeekRes("invalid_shot_number", 2, number)
    ELSE SeekLoop(2, 2, 1, number)

\* seek walking the offsets from where the reader is, not from byte 2
seek_from_current(p, number) ==
    IF number = 0 THEN SeekRes("invalid_shot_number", p, number)
    ELSE SeekLoop(p + 2, p + 2, 1, number)

seek(p, number) ==
    IF number = 0 THEN SeekRes("invalid_shot_number", p, number)
    ELSE SeekLoop(2, 2, 1, number)

(***************************************************************************)
(* Iterator::next                                                          *)
(***************************************************************************)
\* what next() yields for a result of read_one
IterYield(r) ==
    CASE r.kind = "shot" -> "some_ok"
      [] r.kind = "none" -> "none"
      [] r.kind \in {"io", "invalid_offset"} -> "some_err"
      [] OTHER -> "panic"

(***************************************************************************)
(* Input files                                                             *)
(***************************************************************************)
\* the shapes of shot record the files are built from: the sample counts of
\* the record's segments (outgoing first) and the offset field it declares
RecordShapes ==
    { [ns |-> <<0>>,        offset |-> 3],      \* well formed, no echo
      [ns |-> <<2, 0>>,     offset |-> 8],      \* well formed, one echo
      [ns |-> <<32764>>,    offset |-> 32767],  \* well formed, 65534 bytes
      [ns |-> <<32764, 0>>, offset |-> 32770],  \* well formed, 65540 bytes
      [ns |-> <<0, 0>>,     offset |-> 4],      \* echo longer than what remains
      [ns |-> <<0>>,        offset |-> 1],      \* outgoing longer than declared
      [ns |-> <<0>>,        offset |-> 32771],  \* declares more than is there
      [ns |-> <<0, 32765>>, offset |-> 4] }     \* echo of 65536 bytes

SegBytes(n) == 2 * n + 6

RECURSIVE SumBytes(_)
SumBytes(ns) == IF ns = <<>> THEN 0 ELSE SegBytes(Head(ns)) + SumBytes(Tail(ns))

WellFormed(shape) == SumBytes(shape.ns) = 2 * shape.offset

\* the values written: distinct per record i and segment j, both bytes used
SampleA(i, j) == 40000 + 256 * i + 16 * j + 1
SampleB(i, j) == 40000 + 256 * i + 16 * j + 2
TimeInt(i, j) == 40000 + 256 * i + 16 * j + 3

EncodeSegment(i, j, n) ==
    <<Run(n, 1)>>
    \o (IF n >= 1 THEN <<Run(SampleA(i, j), 1)>> ELSE <<>>)
    \o (IF n >= 2 THEN <<Run(SampleB(i, j), n - 1)>> ELSE <<>>)
    \o <<Run(TimeInt(i, j), 1), Run(0, 1)>>

RECURSIVE EncodeSegments(_, _, _)
EncodeSegments(i, j, ns) ==
    IF ns = <<>> THEN <<>>
    ELSE EncodeSegment(i, j, Head(ns)) \o EncodeSegments(i, j + 1, Tail(ns))

EncodeShot(i, shape) ==
    <<Run(i, 1), Run(shape.offset, 1)>> \o EncodeSegments(i, 0, shape.ns)

RECURSIVE EncodeFile(_, _)
EncodeFile(i, shapes) ==
    IF shapes = <<>> THEN <<>>
    ELSE EncodeShot(i, Head(shapes)) \o EncodeFile(i + 1, Tail(shapes))

\* the file without its last d words
RECURSIVE DropWords(_, _)
DropWords(runs, d) ==
    IF d = 0 \/ runs = <<>> THEN runs
    ELSE LET l == runs[Len(runs)]
             front == SubSeq(runs, 1, Len(runs) - 1)
         IN  IF l.cnt > d THEN Append(front, Run(l.w, l.cnt - d))
             ELSE DropWords(front, d - l.cnt)

ShapeLists == UNION { [1..m -> RecordShapes] : m \in 0..MaxShots }

\* a shot header is 2 words and a segment at least 3: cutting up to MaxDrop
\* words off a file ends it at every field of its last record
HeaderWords == 2
MinSegmentWords == 3
MaxDrop == HeaderWords + MinSegmentWords - 1

NoRes == Res("init", 0, 0, 0, <<>>, <<>>)

Init ==
    /\ \E shapes \in ShapeLists, d \in 0..MaxDrop, t \in 0..1 :
          \* a truncated file is a well-formed file cut short
          /\ (d > 0 \/ t > 0) => \A i \in DOMAIN shapes : WellFormed(shapes[i])
          /\ stream = DropWords(EncodeFile(1, shapes), d)
          /\ tail = t
    /\ stream_len = 2 * WordsLen(stream) + tail
    /\ overflow_checks \in BOOLEAN
    /\ pos = 0
    /\ last = [op |-> "open", arg |-> 0, from |-> 0, res |-> NoRes]
    /\ since = [k |-> 0, n |-> 0]
    /\ erred = FALSE

Alive == last.res.kind # "panic"

\* Advance, but a reader that rewinds to the start of the stream when it finds
\* no more shots
Advance_rewind(r) ==
    /\ pos' = IF r.kind = "none" THEN 0 ELSE r.pos
    /\ last' = [op |-> "read_one", arg |-> 0, from |-> pos, res |-> r]
    /\ since' = [since EXCEPT !.n = IF r.kind = "shot" THEN @ + 1 ELSE @]
    /\ erred' = (erred \/ r.kind \in {"io", "invalid_offset"})
    /\ UNCHANGED <<stream, tail, stream_len, overflow_checks>>

\* the reader and the record of the call after read_one returned r at pos
Advance(r) ==
    /\ pos' = r.pos
    /\ last' = [op |-> "read_one", arg |-> 0, from |-> pos, res |-> r]
    /\ since' = [since EXCEPT !.n = IF r.kind = "shot" THEN @ + 1 ELSE @]
    /\ erred' = (erred \/ r.kind \in {"io", "invalid_offset"})
    /\ UNCHANGED <<stream, tail, stream_len, overflow_checks>>

\* a call of reader.read_one()
ReadOne ==
    /\ Alive
    /\ Advance(read_one(pos))

\* a call of reader.next(): read_one, its result handed on as IterYield maps it
Next_ ==
    /\ Alive
    /\ LET r == read_one(pos)
       IN  /\ IterYield(r) \in {"some_ok", "none", "some_err", "panic"}
           /\ Advance(r)

\* a call of reader.seek(number)
Seek(number) ==
    /\ Alive
    /\ LET r == seek(pos, number)
       IN  /\ pos' = r.pos
           /\ last' = [op |-> "seek", arg |-> number, from |-> 0,
                       res |-> Res(r.kind, r.pos, r.number, 0, <<>>, <<>>)]
           /\ since' = [k |-> IF r.kind = "ok" THEN number ELSE -1, n |-> 0]
    /\ erred' = FALSE
    /\ UNCHANGED <<stream, tail, stream_len, overflow_checks>>

Next ==
    \/ ReadOne
    \/ Next_
    \/ \E number \in 0..MaxSeek : Seek(number)

Spec == Init /\ [][Next]_vars

(***************************************************************************)
(* The layout of section 6 read with exact integers: what a file holds,    *)
(* whatever the reader makes of it.                                        *)
(***************************************************************************)
WordAtByte(p) == U16LE(ByteAt(p), ByteAt(p + 1))

\* a whole segment lies at p
SegPresent(p) ==
    /\ p + 2 <= stream_len
    /\ p + 2 * WordAtByte(p) + 6 <= stream_len

SegEnd(p) == p + 2 * WordAtByte(p) + 6

RECURSIVE SegsFill(_, _)
SegsFill(p, end) ==
    IF p = end THEN TRUE
    ELSE IF p > end \/ ~SegPresent(p) THEN FALSE
    ELSE SegsFill(SegEnd(p), end)

RecordEnd(p) == p + 4 + 2 * WordAtByte(p + 2)

\* a well-formed record numbered i lies at p
RecordOK(p, i) ==
    /\ p + 4 <= stream_len
    /\ WordAtByte(p) = i
    /\ RecordEnd(p) <= stream_len
    /\ SegPresent(p + 4)
    /\ SegsFill(SegEnd(p + 4), RecordEnd(p))

\* the number of records of a valid stream, -1 when the stream is not valid
RECURSIVE CountShots(_, _)
CountShots(p, i) ==
    IF p = stream_len THEN i - 1
    ELSE IF RecordOK(p, i) THEN CountShots(RecordEnd(p), i + 1)
    ELSE -1

NShots == CountShots(0, 1)
Valid == NShots >= 0

\* the result of the i-th read_one of a reader opened at the start
RECURSIVE SeqRead(_, _)
SeqRead(p, i) ==
    IF i <= 1 THEN read_one(p) ELSE SeqRead(read_one(p).pos, i - 1)

SameShot(a, b) ==
    /\ a.kind = "shot" /\ b.kind = "shot"
    /\ a.number = b.number
    /\ a.outgoing = b.outgoing
    /\ a.segments = b.segments

IsRead == last.op = "read_one"
IsSeek == last.op = "seek"

\* C1: on a valid stream of N shots, seek(K) with 1 <= K <= N succeeds from any
\* cursor position, and the reads that follow yield the shots K..N, each equal
\* to what iteration from the start yields at that ordinal, and then end.
C1_SeekThenReadIsIteration ==
    Valid =>
      /\ (IsSeek /\ last.arg \in 1..NShots) => last.res.kind = "ok"
      /\ (IsRead /\ since.k \in 1..NShots) =>
            \/ /\ last.res.kind = "shot"
               /\ last.res.number = since.k + since.n - 1
               /\ last.res.number <= NShots
               /\ SameShot(last.res, SeqRead(0, last.res.number))
            \/ /\ last.res.kind = "none"
               /\ since.n = NShots - since.k + 1

\* C2: iterating a reader opened at the start of a valid stream of N shots
\* yields N successful shots numbered 1..N in order, and then ends.
C2_IterationYieldsAllShots ==
    (Valid /\ since.k = 0 /\ IsRead) =>
        \/ /\ IterYield(last.res) = "some_ok"
           /\ last.res.number = since.n
           /\ since.n <= NShots
        \/ /\ IterYield(last.res) = "none"
           /\ since.n = NShots

\* C3: whenever read_one returns a shot, the bytes consumed after the 4-byte
\* header are exactly 2 * offset: the cursor has advanced by 4 + 2 * offset.
C3_ShotConsumesDeclaredBytes ==
    (IsRead /\ last.res.kind = "shot") =>
        /\ last.res.pos - (last.from + 4) = 2 * last.res.offset
        /\ pos = last.from + 4 + 2 * last.res.offset

\* C4: on a valid stream of N shots, seek(N+1) succeeds and leaves the cursor
\* at the end of the stream, where read_one reports no more shots.
C4_SeekOnePastEnd ==
    (Valid /\ IsSeek /\ last.arg = NShots + 1) =>
        /\ last.res.kind = "ok"
        /\ pos = stream_len
        /\ read_one(pos).kind = "none"

\* C5: on a valid stream of N shots, seek(K) with K > N+1 fails with the
\* invalid-shot-number error carrying K.
C5_SeekBeyondIsInvalidShotNumber ==
    (Valid /\ IsSeek /\ last.arg > NShots + 1) =>
        /\ last.res.kind = "invalid_shot_number"
        /\ last.res.number = last.arg

\* the record at p holds a whole echo segment longer than what remains of the
\* declared offset when the reader comes to it
RECURSIVE EchoWalk(_, _)
EchoWalk(q, remaining) ==
    IF remaining <= 0 \/ ~SegPresent(q) THEN FALSE
    ELSE IF SegEnd(q) - q > remaining THEN TRUE
    ELSE EchoWalk(SegEnd(q), remaining - (SegEnd(q) - q))

EchoExceeds(p) ==
    /\ p + 4 <= stream_len
    /\ SegPresent(p + 4)
    /\ EchoWalk(SegEnd(p + 4), 2 * WordAtByte(p + 2) - (SegEnd(p + 4) - (p + 4)))

\* C6: when a whole echo segment is longer than the bytes that remain of the
\* declared offset, read_one fails with InvalidOffset carrying the shot's number
\* and declared offset, and returns no shot.
C6_LongEchoIsInvalidOffset ==
    (IsRead /\ EchoExceeds(last.from)) =>
        /\ last.res.kind = "invalid_offset"
        /\ last.res.number = WordAtByte(last.from)
        /\ last.res.offset = WordAtByte(last.from + 2)

\* C7: once next() has yielded an error, every later next() on the same reader
\* yields no element.
C7_NoElementAfterError ==
    [][(erred /\ last'.op = "read_one") => IterYield(last'.res) = "none"]_vars

\* C8: read_one reports no more shots only when zero bytes are available at the
\* cursor; with exactly one byte available it fails with an I/O error.
C8_CleanEndOnlyAtZeroBytes ==
    IsRead =>
        /\ last.res.kind = "none" => last.from >= stream_len
        /\ stream_len - last.from = 1 => last.res.kind = "io"

\* the record at p holds a whole outgoing segment longer than 2 * offset
OutgoingExceeds(p) ==
    /\ p + 4 <= stream_len
    /\ SegPresent(p + 4)
    /\ SegEnd(p + 4) - (p + 4) > 2 * WordAtByte(p + 2)

\* C9: when the outgoing segment is longer than 2 * offset, read_one fails with
\* InvalidOffset: no wrap-around, no panic, no shot.
C9_LongOutgoingIsInvalidOffset ==
    (IsRead /\ OutgoingExceeds(last.from)) => last.res.kind = "invalid_offset"

\* C10: seek(0) fails with InvalidShotNumber on every stream and leaves the
\* cursor where it was, so the next read_one gives what it would have given.
C10_SeekZeroRejectedInPlace ==
    [][(last'.op = "seek" /\ last'.arg = 0) =>
          /\ last'.res.kind = "invalid_shot_number"
          /\ last'.res.number = 0
          /\ pos' = pos
          /\ read_one(pos') = read_one(pos)]_vars

\* seek(0) was called on a reader that had already read a shot
C10_Witness ==
    /\ IsSeek /\ last.arg = 0
    /\ last.res.kind = "invalid_shot_number"
    /\ pos > 0
    /\ read_one(pos).kind = "shot"

(***************************************************************************)
(* Segment::from_read and Segment::len on a source of their own            *)
(***************************************************************************)
\* the sample counts of the segments the sources hold
SegCounts == {0, 1, 2, 3, 50, 32764, 32765, 32766, 65535}

\* words that follow the segment in the source
MaxExtra == 2

\* what Segment::from_read returned at p; len is -1 until len() is called
SegRes(s) ==
    [kind |-> IF s.ok THEN "segment" ELSE "io", pos |-> s.pos,
     data |-> s.data, time_interval |-> s.time_interval, len |-> -1]

SegInit ==
    /\ \E n \in SegCounts, extra \in 0..MaxExtra, d \in 0..MaxDrop, t \in 0..1 :
          /\ d > 0 => extra = 0
          /\ stream = DropWords(EncodeSegment(1, 0, n)
                                \o (IF extra > 0 THEN <<Run(7, extra)>> ELSE <<>>), d)
          /\ tail = t
    /\ stream_len = 2 * WordsLen(stream) + tail
    /\ overflow_checks \in BOOLEAN
    /\ pos = 0
    /\ last = [op |-> "open", arg |-> 0, from |-> 0, res |-> SegRes(SegFail(0))]
    /\ since = [k |-> 0, n |-> 0]
    /\ erred = FALSE

\* a call of Segment::from_read(&mut source)
SegFromRead ==
    /\ Alive
    /\ LET s == from_read(pos)
       IN  /\ pos' = s.pos
           /\ last' = [op |-> "from_read", arg |-> 0, from |-> pos, res |-> SegRes(s)]
           /\ erred' = (erred \/ ~s.ok)
    /\ UNCHANGED <<stream, tail, stream_len, overflow_checks, since>>

\* a call of len() on the segment from_read returned
SegLenCall ==
    /\ last.op = "from_read"
    /\ last.res.kind = "segment"
    /\ LET l == SegLen(last.res.data)
       IN  last' = [last EXCEPT !.op = "len",
                                !.res.kind = IF l.ovf /\ overflow_checks
                                             THEN "panic" ELSE "segment",
                                !.res.len = l.val]
    /\ UNCHANGED <<stream, tail, stream_len, overflow_checks, pos, since, erred>>

SegNext ==
    \/ SegFromRead
    \/ SegLenCall

SegSpec == SegInit /\ [][SegNext]_vars

\* the i-th element (from 0) of a run-length encoded Vec<u16>
RECURSIVE VecAt(_, _)
VecAt(data, i) ==
    IF i < Head(data).cnt THEN Head(data).w
    ELSE VecAt(Tail(data), i - Head(data).cnt)

\* C11: from a source that holds the whole segment of n samples, from_read
\* succeeds, consumes exactly 2n+6 bytes, returns the n samples in stream order
\* and the time interval after them, and len() is the number of bytes consumed.
C11_FromReadDecodesWholeSegment ==
    (last.op \in {"from_read", "len"} /\ SegPresent(last.from)) =>
        LET n == WordAtByte(last.from)
        IN  /\ last.res.kind # "io"
            /\ last.res.pos - last.from = 2 * n + 6
            /\ VecLen(last.res.data) = n
            /\ \A i \in 0..(n - 1) :
                  VecAt(last.res.data, i) = WordAtByte(last.from + 2 + 2 * i)
            /\ last.res.time_interval = WordAtByte(last.from + 2 + 2 * n)
            /\ last.op = "len" =>
                  /\ last.res.kind = "segment"
                  /\ last.res.len = last.res.pos - last.from

\* C12: for every decodable segment, len() is even and at least 6.
C12_LenEvenAtLeastSix ==
    last.op = "len" =>
        /\ last.res.kind = "segment"
        /\ last.res.len % 2 = 0
        /\ last.res.len >= 6

\* ---------------------------------------------------------------------------
\* read_one on a record the stream cuts short
\* ---------------------------------------------------------------------------

\* an echo segment that the declared offset still requires is cut short by the
\* end of the stream (exact integers, walking whole segments from q)
RECURSIVE TruncWalk(_, _)
TruncWalk(q, remaining) ==
    IF remaining <= 0 THEN FALSE
    ELSE IF ~SegPresent(q) THEN TRUE
    ELSE IF SegEnd(q) - q > remaining THEN FALSE
    ELSE TruncWalk(SegEnd(q), remaining - (SegEnd(q) - q))

\* the record at p has its number field in the stream, and the stream ends
\* inside its offset field, its outgoing segment or a required echo segment
Truncated(p) ==
    /\ p + 2 <= stream_len
    /\ \/ p + 4 > stream_len
       \/ ~SegPresent(p + 4)
       \/ TruncWalk(SegEnd(p + 4),
                    2 * WordAtByte(p + 2) - (SegEnd(p + 4) - (p + 4)))

\* C13: when the stream ends after a record's number field but before the
\* record is complete (in the offset field, the outgoing segment or an echo
\* segment the declared offset still requires), read_one fails with an I/O
\* error: it reports neither a clean end of stream nor a shot.
C13_TruncatedRecordIsIoError ==
    (IsRead /\ Truncated(last.from)) => last.res.kind = "io"

\* ---------------------------------------------------------------------------
\* read_one after the end of the stream was reported
\* ---------------------------------------------------------------------------

\* C14: on an unchanging stream, a read_one (or next) that follows a read_one
\* which reported no more shots, with no seek in between, reports no more
\* shots as well: never a shot and never an error. Each such call leaves the
\* reader where the property applies again, so it covers every later call.
C14_DoneIsTerminal ==
    [][(IsRead /\ last.res.kind = "none" /\ last'.op = "read_one")
          => last'.res.kind = "none"]_vars

\* a read_one reported no more shots once more: it started at the end of a
\* stream with a stray last byte, where only an earlier read_one that
\* reported no more shots can have left a reader that was never repositioned
C14_Witness ==
    /\ IsRead
    /\ last.res.kind = "none"
    /\ since.k = 0
    /\ ~erred
    /\ tail = 1
    /\ last.from = stream_len

\* ---------------------------------------------------------------------------
\* seek and the calls that came before it
\* ---------------------------------------------------------------------------

\* C15 as stated: for every target K, seek(K) ends with the outcome and the
\* cursor position it has on a reader just opened, whatever read_one and seek
\* calls preceded it.
C15_SeekIndependentOfHistory ==
    [][last'.op = "seek" =>
          /\ last'.res.kind = seek(0, last'.arg).kind
          /\ pos' = seek(0, last'.arg).pos]_vars

\* C15, for targets K >= 1: seek(K) ends with the outcome and the cursor
\* position it has on a reader just opened, whatever calls preceded it, and the
\* read_one that follows a successful seek(K) returns what it returns after
\* seek(K) on a reader just opened, so seek(K); read_one twice over returns
\* identical shots. (seek(0) fails on every reader, but leaves the cursor
\* where the earlier calls put it.)
C15_SeekFromOneIndependentOfHistory ==
    [][/\ (last'.op = "seek" /\ last'.arg >= 1) =>
             /\ last'.res.kind = seek(0, last'.arg).kind
             /\ pos' = seek(0, last'.arg).pos
       /\ (last'.op = "seek" /\ last'.arg = 0) =>
             last'.res.kind = seek(0, 0).kind
       /\ (IsSeek /\ last.res.kind = "ok" /\ last'.op = "read_one") =>
             last'.res = read_one(seek(0, last.arg).pos)]_vars

\* a shot was read right after a successful seek(K), K >= 2, and it is the
\* shot that follows seek(K) on a reader just opened
C15_Witness ==
    /\ IsRead
    /\ since.k >= 2
    /\ since.n = 1
    /\ last.res.kind = "shot"
    /\ last.from = seek(0, since.k).pos
    /\ SameShot(last.res, read_one(seek(0, since.k).pos))

\* ---------------------------------------------------------------------------
\* seek over a record the stream cuts short
\* ---------------------------------------------------------------------------

\* walking the records from the i-th at p by their declared lengths (exact
\* integers), one of ordinal below K declares 4 + 2 * offset bytes and the
\* stream ends before them
RECURSIVE ChainTrunc(_, _, _)
ChainTrunc(p, i, K) ==
    IF i >= K \/ p + 4 > stream_len THEN FALSE
    ELSE IF RecordEnd(p) > stream_len THEN TRUE
    ELSE ChainTrunc(RecordEnd(p), i + 1, K)

\* C16: seek(K) with K >= 2 over a stream in which a record of ordinal below K
\* is truncated (the stream ends before the 4 + 2 * offset bytes it declares)
\* fails with the invalid-shot-number error; it does not succeed with the
\* cursor beyond the end of the stream.
C16_SeekOverTruncatedRecordFails ==
    (IsSeek /\ last.arg >= 2 /\ ChainTrunc(0, 1, last.arg)) =>
        /\ last.res.kind = "invalid_shot_number"
        /\ ~(last.res.kind = "ok" /\ pos > stream_len)

\* ---------------------------------------------------------------------------
\* the byte quantities derived from the offset field
\* ---------------------------------------------------------------------------

\* C17: for every offset the reader meets, the byte quantities derived from it
\* are the exact integers: read_one's bytes_remaining is 2 * offset and the
\* stride of seek's first step is 2 * offset + 2, with no wrap-around modulo
\* 2^16 and no arithmetic failure.
C17_OffsetArithmeticExact ==
    /\ (IsRead /\ last.from + 4 <= stream_len) =>
          LET offset == WordAtByte(last.from + 2)
          IN  /\ ~(OffsetBytes(offset).ovf /\ overflow_checks)
              /\ OffsetBytes(offset).val = 2 * offset
    /\ (IsSeek /\ last.arg >= 2 /\ 4 <= stream_len) =>
          LET offset == WordAtByte(2)
          IN  /\ ~(Stride(offset).ovf /\ overflow_checks)
              /\ Stride(offset).val = 2 * offset + 2

\* ---------------------------------------------------------------------------
\* the echo loop of read_one
\* ---------------------------------------------------------------------------

\* read_one at p reaches its echo loop: the header and the outgoing segment
\* are read and the subtraction of the outgoing length has not ended the program
ReachesLoop(p) ==
    /\ p + 4 <= stream_len
    /\ ~(OffsetBytes(WordAtByte(p + 2)).ovf /\ overflow_checks)
    /\ from_read(p + 4).ok
    /\ LET len == SegLen(from_read(p + 4).data)
       IN  ~((len.ovf \/ Ovf(OffsetBytes(WordAtByte(p + 2)).val - len.val))
             /\ overflow_checks)

\* bytes_remaining when read_one at p enters its echo loop
LoopEntry(p) ==
    Wrap(OffsetBytes(WordAtByte(p + 2)).val - SegLen(from_read(p + 4).data).val)

\* every iteration of the echo loop entered at p with bytes_remaining gives
\* the record up or takes at least MinSegmentWords words off bytes_remaining
RECURSIVE EchoDecreases(_, _)
EchoDecreases(p, bytes_remaining) ==
    IF ~(bytes_remaining > 0) THEN TRUE
    ELSE LET step == EchoStep(p, bytes_remaining)
         IN  IF step.kind \in {"io", "invalid_offset"} THEN TRUE
             ELSE IF step.kind = "panic" THEN FALSE
             ELSE /\ bytes_remaining - step.bytes_remaining >= 2 * MinSegmentWords
                  /\ EchoDecreases(step.pos, step.bytes_remaining)

\* the number of iterations of the echo loop entered at p with bytes_remaining
RECURSIVE EchoIterations(_, _)
EchoIterations(p, bytes_remaining) ==
    IF ~(bytes_remaining > 0) THEN 0
    ELSE LET step == EchoStep(p, bytes_remaining)
         IN  IF step.kind # "next" THEN 1
             ELSE 1 + EchoIterations(step.pos, step.bytes_remaining)

\* C18: every read_one on a finite stream terminates (its echo loop runs at
\* most once per segment the stream has room for, and once more), and each
\* iteration of the echo loop either rejects the record or strictly decreases
\* bytes_remaining by at least 6.
C18_EchoLoopDecreases ==
    (IsRead /\ ReachesLoop(last.from)) =>
        LET entry == from_read(last.from + 4).pos
        IN  /\ EchoIterations(entry, LoopEntry(last.from))
                  <= (stream_len - entry) \div (2 * MinSegmentWords) + 1
            /\ EchoDecreases(entry, LoopEntry(last.from))

====
